---- MODULE Spec2Model ----
(***************************************************************************)
(* A model of the KeyMint request gateway (src/src/index.ts, class         *)
(* KeyMint): the constructor, the thirteen operations, the four request    *)
(* helpers and handleError.  The HTTP layer (the axios instance) is the     *)
(* environment: it fulfils or rejects each request with a value drawn from *)
(* a finite set of JavaScript values.                                       *)
(***************************************************************************)
EXTENDS Integers, Sequences, FiniteSets, TLC

(***************************************************************************)
(* JavaScript values.  Every value is a record tagged by its type; an       *)
(* object carries its class and its own properties (a function from         *)
(* property names to values).                                               *)
(***************************************************************************)
Undefined == [t |-> "undefined"]
Null == [t |-> "null"]
Str(s) == [t |-> "string", s |-> s]
Num(n) == [t |-> "number", n |-> n]
Bool(b) == [t |-> "boolean", b |-> b]
Obj(class, props) == [t |-> "object", class |-> class, props |-> props]
NoProps == [k \in {} |-> Undefined]

\* typeof v
TypeOf(v) == IF v.t = "null" THEN "object" ELSE v.t

\* ToBoolean(v), as applied by !v, && and ||
Truthy(v) ==
    CASE v.t = "undefined" -> FALSE
      [] v.t = "null" -> FALSE
      [] v.t = "string" -> v.s # ""
      [] v.t = "number" -> v.n # 0
      [] v.t = "boolean" -> v.b
      [] OTHER -> TRUE

\* a || b
OrElse(a, b) == IF Truthy(a) THEN a ELSE b

\* v is null or undefined: reading a property of it throws a TypeError
IsNullish(v) == v.t \in {"undefined", "null"}

\* 'k' in v, for an object v
HasProp(v, k) == v.t = "object" /\ k \in DOMAIN v.props

\* v.k for a value v that is not null or undefined
Get(v, k) == IF HasProp(v, k) THEN v.props[k] ELSE Undefined

\* The decimal digits of a natural number
RECURSIVE Digits(_)
Digits(n) ==
    LET d == CASE n % 10 = 0 -> "0" [] n % 10 = 1 -> "1" [] n % 10 = 2 -> "2"
               [] n % 10 = 3 -> "3" [] n % 10 = 4 -> "4" [] n % 10 = 5 -> "5"
               [] n % 10 = 6 -> "6" [] n % 10 = 7 -> "7" [] n % 10 = 8 -> "8"
               [] OTHER -> "9"
    IN IF n < 10 THEN d ELSE Digits(n \div 10) \o d

\* ToString(v), as applied by a template literal `${v}`
ToStr(v) ==
    CASE v.t = "string" -> v.s
      [] v.t = "undefined" -> "undefined"
      [] v.t = "null" -> "null"
      [] v.t = "boolean" -> (IF v.b THEN "true" ELSE "false")
      [] v.t = "number" -> (IF v.n < 0 THEN "-" \o Digits(-v.n) ELSE Digits(v.n))
      [] OTHER -> "[object Object]"

\* Completion records: an evaluation either returns a value or throws one
Normal(v) == [type |-> "normal", value |-> v]
Throw(v) == [type |-> "throw", value |-> v]

\* The TypeError the runtime throws for v.k when v is null or undefined
PropertyTypeError(v, k) ==
    Obj("TypeError",
        [message |-> Str("Cannot read properties of " \o ToStr(v)
                         \o " (reading '" \o k \o "')")])

(***************************************************************************)
(* handleError                                                              *)
(***************************************************************************)
defaultApiErrorMessage == "An API error occurred during the request."
defaultUnexpectedErrorMessage == "An unexpected error occurred."

\* The object literal {message, code, status} of the three return statements
ErrorLiteral(message, code, status) ==
    Obj("Object", [message |-> message, code |-> code, status |-> status])

\* Mutant of handleError: the status of the response is dropped
handleError_NoStatus(axiosError) ==
    IF IsNullish(axiosError)
    THEN Throw(PropertyTypeError(axiosError, "isAxiosError"))
    ELSE IF Truthy(Get(axiosError, "isAxiosError")) /\ Truthy(Get(axiosError, "response"))
         THEN LET responseData == Get(Get(axiosError, "response"), "data")
              IN IF TypeOf(responseData) = "object" /\ responseData # Null
                    /\ HasProp(responseData, "message")
                 THEN Normal(ErrorLiteral(
                        OrElse(Get(responseData, "message"), Str(defaultApiErrorMessage)),
                        IF TypeOf(Get(responseData, "code")) = "number"
                        THEN Get(responseData, "code") ELSE Num(-1),
                        Undefined))
                 ELSE Normal(ErrorLiteral(Str(defaultApiErrorMessage), Num(-1), Undefined))
         ELSE Normal(ErrorLiteral(
                OrElse(Get(axiosError, "message"), Str(defaultUnexpectedErrorMessage)),
                Num(-1), Undefined))

\* Mutant of handleError: a response is inspected whether or not the failure
\* is marked isAxiosError
handleError_AnyResponse(axiosError) ==
    IF IsNullish(axiosError)
    THEN Throw(PropertyTypeError(axiosError, "isAxiosError"))
    ELSE IF Truthy(Get(axiosError, "response"))
         THEN LET response == Get(axiosError, "response")
                  responseData == Get(response, "data")
              IN IF TypeOf(responseData) = "object" /\ responseData # Null
                    /\ HasProp(responseData, "message")
                 THEN Normal(ErrorLiteral(
                        OrElse(Get(responseData, "message"), Str(defaultApiErrorMessage)),
                        IF TypeOf(Get(responseData, "code")) = "number"
                        THEN Get(responseData, "code") ELSE Num(-1),
                        Get(response, "status")))
                 ELSE Normal(ErrorLiteral(Str(defaultApiErrorMessage), Num(-1),
                                          Get(response, "status")))
         ELSE Normal(ErrorLiteral(
                OrElse(Get(axiosError, "message"), Str(defaultUnexpectedErrorMessage)),
                Num(-1), Undefined))

\* Mutant of handleError: a response body without a message field is read
\* like a structured one
handleError_NoShapeCheck(axiosError) ==
    IF IsNullish(axiosError)
    THEN Throw(PropertyTypeError(axiosError, "isAxiosError"))
    ELSE IF Truthy(Get(axiosError, "isAxiosError")) /\ Truthy(Get(axiosError, "response"))
         THEN LET response == Get(axiosError, "response")
                  responseData == Get(response, "data")
              IN IF IsNullish(responseData)
                 THEN Throw(PropertyTypeError(responseData, "message"))
                 ELSE Normal(ErrorLiteral(
                        OrElse(Get(responseData, "message"), Str(defaultApiErrorMessage)),
                        IF TypeOf(Get(responseData, "code")) = "number"
                        THEN Get(responseData, "code") ELSE Num(0),
                        Get(response, "status")))
         ELSE Normal(ErrorLiteral(
                OrElse(Get(axiosError, "message"), Str(defaultUnexpectedErrorMessage)),
                Num(-1), Undefined))

\* Mutant of handleError: a failure without a response always gets the fixed
\* message and the status null
handleError_NoOwnMessage(axiosError) ==
    IF IsNullish(axiosError)
    THEN Throw(PropertyTypeError(axiosError, "isAxiosError"))
    ELSE IF Truthy(Get(axiosError, "isAxiosError")) /\ Truthy(Get(axiosError, "response"))
         THEN LET response == Get(axiosError, "response")
                  responseData == Get(response, "data")
              IN IF TypeOf(responseData) = "object" /\ responseData # Null
                    /\ HasProp(responseData, "message")
                 THEN Normal(ErrorLiteral(
                        OrElse(Get(responseData, "message"), Str(defaultApiErrorMessage)),
                        IF TypeOf(Get(responseData, "code")) = "number"
                        THEN Get(responseData, "code") ELSE Num(-1),
                        Get(response, "status")))
                 ELSE Normal(ErrorLiteral(Str(defaultApiErrorMessage), Num(-1),
                                          Get(response, "status")))
         ELSE Normal(ErrorLiteral(Str(defaultUnexpectedErrorMessage), Num(-1), Null))

\* Mutant of handleError: a failure without a response gets the status null
handleError_NullStatus(axiosError) ==
    IF IsNullish(axiosError)
    THEN Throw(PropertyTypeError(axiosError, "isAxiosError"))
    ELSE IF Truthy(Get(axiosError, "isAxiosError")) /\ Truthy(Get(axiosError, "response"))
         THEN LET response == Get(axiosError, "response")
                  responseData == Get(response, "data")
              IN IF TypeOf(responseData) = "object" /\ responseData # Null
                    /\ HasProp(responseData, "message")
                 THEN Normal(ErrorLiteral(
                        OrElse(Get(responseData, "message"), Str(defaultApiErrorMessage)),
                        IF TypeOf(Get(responseData, "code")) = "number"
                        THEN Get(responseData, "code") ELSE Num(-1),
                        Get(response, "status")))
                 ELSE Normal(ErrorLiteral(Str(defaultApiErrorMessage), Num(-1),
                                          Get(response, "status")))
         ELSE Normal(ErrorLiteral(
                OrElse(Get(axiosError, "message"), Str(defaultUnexpectedErrorMessage)),
                Num(-1), Null))

\* Mutant of handleError: the code of the body is copied whatever its type
handleError_AnyCode(axiosError) ==
    IF IsNullish(axiosError)
    THEN Throw(PropertyTypeError(axiosError, "isAxiosError"))
    ELSE IF Truthy(Get(axiosError, "isAxiosError")) /\ Truthy(Get(axiosError, "response"))
         THEN LET response == Get(axiosError, "response")
                  responseData == Get(response, "data")
              IN IF TypeOf(responseData) = "object" /\ responseData # Null
                    /\ HasProp(responseData, "message")
                 THEN Normal(ErrorLiteral(
                        OrElse(Get(responseData, "message"), Str(defaultApiErrorMessage)),
                        Get(responseData, "code"),
                        Get(response, "status")))
                 ELSE Normal(ErrorLiteral(Str(defaultApiErrorMessage), Num(-1),
                                          Get(response, "status")))
         ELSE Normal(ErrorLiteral(
                OrElse(Get(axiosError, "message"), Str(defaultUnexpectedErrorMessage)),
                Num(-1), Undefined))

\* Mutant of handleError: an empty message of the body is replaced by the
\* fallback of the failures without a response
handleError_WrongFallback(axiosError) ==
    IF IsNullish(axiosError)
    THEN Throw(PropertyTypeError(axiosError, "isAxiosError"))
    ELSE IF Truthy(Get(axiosError, "isAxiosError")) /\ Truthy(Get(axiosError, "response"))
         THEN LET response == Get(axiosError, "response")
                  responseData == Get(response, "data")
              IN IF TypeOf(responseData) = "object" /\ responseData # Null
                    /\ HasProp(responseData, "message")
                 THEN Normal(ErrorLiteral(
                        OrElse(Get(responseData, "message"),
                               Str(defaultUnexpectedErrorMessage)),
                        IF TypeOf(Get(responseData, "code")) = "number"
                        THEN Get(responseData, "code") ELSE Num(-1),
                        Get(response, "status")))
                 ELSE Normal(ErrorLiteral(Str(defaultApiErrorMessage), Num(-1),
                                          Get(response, "status")))
         ELSE Normal(ErrorLiteral(
                OrElse(Get(axiosError, "message"), Str(defaultUnexpectedErrorMessage)),
                Num(-1), Undefined))

\* handleError(axiosError): the normalized error it returns, or the TypeError
\* that reading axiosError.isAxiosError throws when axiosError is null or
\* undefined
handleError(axiosError) ==
    IF IsNullish(axiosError)
    THEN Throw(PropertyTypeError(axiosError, "isAxiosError"))
    ELSE IF Truthy(Get(axiosError, "isAxiosError")) /\ Truthy(Get(axiosError, "response"))
         THEN LET response == Get(axiosError, "response")
                  responseData == Get(response, "data")
              IN IF TypeOf(responseData) = "object" /\ responseData # Null
                    /\ HasProp(responseData, "message")
                 THEN Normal(ErrorLiteral(
                        OrElse(Get(responseData, "message"), Str(defaultApiErrorMessage)),
                        IF TypeOf(Get(responseData, "code")) = "number"
                        THEN Get(responseData, "code") ELSE Num(-1),
                        Get(response, "status")))
                 ELSE Normal(ErrorLiteral(Str(defaultApiErrorMessage), Num(-1),
                                          Get(response, "status")))
         ELSE Normal(ErrorLiteral(
                OrElse(Get(axiosError, "message"), Str(defaultUnexpectedErrorMessage)),
                Num(-1), Undefined))

(***************************************************************************)
(* The constructor                                                          *)
(***************************************************************************)
DefaultBaseUrl == "https://api.keymint.dev"
TokenRequiredMessage == "Access token is required to initialize the SDK."

\* The configuration object handed to axios.create
ClientConfig(accessToken, baseUrl) ==
    [baseURL |-> baseUrl,
     headers |-> ("Authorization" :> ("Bearer " \o ToStr(accessToken))
                  @@ "Content-Type" :> "application/json")]

\* Mutant of the constructor: the token is not checked
KeyMintConstructor_NoCheck(accessToken, baseUrl) ==
    Normal(ClientConfig(accessToken,
                        IF baseUrl = Undefined THEN Str(DefaultBaseUrl) ELSE baseUrl))

\* Mutant of the constructor: the Authorization header is the bare token
KeyMintConstructor_BareToken(accessToken, baseUrl) ==
    IF ~Truthy(accessToken)
    THEN Throw(Obj("Error", [message |-> Str(TokenRequiredMessage)]))
    ELSE Normal([baseURL |-> IF baseUrl = Undefined THEN Str(DefaultBaseUrl) ELSE baseUrl,
                 headers |-> ("Authorization" :> ToStr(accessToken)
                              @@ "Content-Type" :> "application/json")])

\* new KeyMint(accessToken, baseUrl): throws, or returns the configuration
\* of the client it creates.  The default of baseUrl applies when the
\* argument is undefined.
KeyMintConstructor(accessToken, baseUrl) ==
    IF ~Truthy(accessToken)
    THEN Throw(Obj("Error", [message |-> Str(TokenRequiredMessage)]))
    ELSE Normal(ClientConfig(accessToken,
                             IF baseUrl = Undefined THEN Str(DefaultBaseUrl) ELSE baseUrl))

(***************************************************************************)
(* The request helpers and the operations.  An operation evaluates to the   *)
(* HTTP call it makes on this.apiClient, or to the exception raised while   *)
(* its arguments are evaluated.                                             *)
(***************************************************************************)
\* An argument that is not passed to the HTTP call
Absent == [t |-> "absent"]

\* this.apiClient.post(endpoint, params)
handleRequest(endpoint, params) ==
    [method |-> "post", url |-> endpoint, data |-> params, config |-> Absent]

\* this.apiClient.get(endpoint, { params })
handleGetRequest(endpoint, params) ==
    [method |-> "get", url |-> endpoint, data |-> Absent,
     config |-> Obj("Object", [params |-> params])]

\* Mutant of handleDeleteRequest: params travel as the body of the request
handleDeleteRequest_AsBody(endpoint, params) ==
    [method |-> "delete", url |-> endpoint, data |-> params, config |-> Absent]

\* this.apiClient.delete(endpoint, { params })
handleDeleteRequest(endpoint, params) ==
    [method |-> "delete", url |-> endpoint, data |-> Absent,
     config |-> Obj("Object", [params |-> params])]

\* this.apiClient.put(endpoint, params)
handlePutRequest(endpoint, params) ==
    [method |-> "put", url |-> endpoint, data |-> params, config |-> Absent]

\* Mutant of the object literal: the whole params object is forwarded
CustomerIdOnly_Whole(params) == params

\* The object literal { customerId: params.customerId }
CustomerIdOnly(params) == Obj("Object", [customerId |-> Get(params, "customerId")])

\* Mutant of createKey: a missing maxActivations is defaulted in the body
createKey_DefaultsMaxActivations(params) ==
    Normal(handleRequest("/key",
        IF params.t = "object" /\ ~HasProp(params, "maxActivations")
        THEN Obj(params.class, params.props @@ [maxActivations |-> Str("1")])
        ELSE params))

createKey(params) == Normal(handleRequest("/key", params))
activateKey(params) == Normal(handleRequest("/key/activate", params))
deactivateKey(params) == Normal(handleRequest("/key/deactivate", params))

\* Mutant of getKey: the request of the previous API version, a POST to
\* /get-key with params as the body
getKey_Legacy(params) == Normal(handleRequest("/get-key", params))

\* Mutant of getKey: the whole params object becomes the query
getKey_ForwardsAll(params) == Normal(handleGetRequest("/key", params))

getKey(params) ==
    IF IsNullish(params)
    THEN Throw(PropertyTypeError(params, "productId"))
    ELSE Normal(handleGetRequest("/key",
            Obj("Object", [productId |-> Get(params, "productId"),
                           licenseKey |-> Get(params, "licenseKey")])))

blockKey(params) == Normal(handleRequest("/key/block", params))
unblockKey(params) == Normal(handleRequest("/key/unblock", params))
createCustomer(params) == Normal(handleRequest("/customer", params))
\* Mutant of getAllCustomers: a call without params asks for the first page
getAllCustomers_DefaultPaging(params) ==
    Normal(handleGetRequest("/customer",
        IF params = Undefined
        THEN Obj("Object", [page |-> Num(1), limit |-> Num(10)])
        ELSE params))

getAllCustomers(params) == Normal(handleGetRequest("/customer", params))

getCustomerWithKeys(params) ==
    IF IsNullish(params)
    THEN Throw(PropertyTypeError(params, "customerId"))
    ELSE Normal(handleGetRequest("/customer/keys", CustomerIdOnly(params)))

\* Mutant of updateCustomer: the customer is named in the query and the body
\* carries the remaining fields only
updateCustomer_IdInQuery(params) ==
    IF IsNullish(params)
    THEN Throw(PropertyTypeError(params, "customerId"))
    ELSE Normal([method |-> "put", url |-> "/customer/by-id",
                 data |-> Obj("Object", [k \in DOMAIN params.props \ {"customerId"}
                                            |-> params.props[k]]),
                 config |-> Obj("Object", [params |-> CustomerIdOnly(params)])])

updateCustomer(params) == Normal(handlePutRequest("/customer/by-id", params))

deleteCustomer(params) ==
    IF IsNullish(params)
    THEN Throw(PropertyTypeError(params, "customerId"))
    ELSE Normal(handleDeleteRequest("/customer/by-id", CustomerIdOnly(params)))

toggleCustomerStatus(params) ==
    IF IsNullish(params)
    THEN Throw(PropertyTypeError(params, "customerId"))
    ELSE Normal(handleRequest("/customer/disable", CustomerIdOnly(params)))

getCustomerById(params) ==
    IF IsNullish(params)
    THEN Throw(PropertyTypeError(params, "customerId"))
    ELSE Normal(handleGetRequest("/customer/by-id", CustomerIdOnly(params)))

\* The public methods of the class
Operations ==
    {"createKey", "activateKey", "deactivateKey", "getKey", "blockKey", "unblockKey",
     "createCustomer", "getAllCustomers", "getCustomerById", "getCustomerWithKeys",
     "updateCustomer", "toggleCustomerStatus", "deleteCustomer"}

\* sdk[op](params)
CallOperation(op, params) ==
    CASE op = "createKey" -> createKey(params)
      [] op = "activateKey" -> activateKey(params)
      [] op = "deactivateKey" -> deactivateKey(params)
      [] op = "getKey" -> getKey(params)
      [] op = "blockKey" -> blockKey(params)
      [] op = "unblockKey" -> unblockKey(params)
      [] op = "createCustomer" -> createCustomer(params)
      [] op = "getAllCustomers" -> getAllCustomers(params)
      [] op = "getCustomerById" -> getCustomerById(params)
      [] op = "getCustomerWithKeys" -> getCustomerWithKeys(params)
      [] op = "updateCustomer" -> updateCustomer(params)
      [] op = "toggleCustomerStatus" -> toggleCustomerStatus(params)
      [] OTHER -> deleteCustomer(params)

\* Mutant of AsyncCall: the operations are not declared async, so an
\* exception raised before the helper is called is thrown to the caller
AsyncCall_NotAsync(op, params) ==
    LET body == CallOperation(op, params)
    IN [returned |-> IF body.type = "throw" THEN "throw" ELSE "promise", body |-> body]

\* The call of an operation, all of which are declared async: the call
\* returns a promise whatever its body does, and an exception the body
\* raises rejects that promise
AsyncCall(op, params) ==
    [returned |-> "promise", body |-> CallOperation(op, params)]

\* The state of the promise the HTTP call returned
HttpPending == [state |-> "pending", value |-> Undefined]
HttpFulfilled(response) == [state |-> "fulfilled", value |-> response]
HttpRejected(error) == [state |-> "rejected", value |-> error]

\* Mutant of the helpers: the whole response is returned, not its data
AfterAwait_WholeResponse(http) ==
    IF http.state = "fulfilled"
    THEN Normal(http.value)
    ELSE LET handled == handleError(http.value)
         IN IF handled.type = "normal" THEN Throw(handled.value) ELSE handled

\* Mutant of the helpers: a response whose body has a non-zero code is
\* turned into an error
AfterAwait_ChecksCode(http) ==
    LET tried == IF http.state = "fulfilled"
                 THEN IF IsNullish(http.value)
                      THEN Throw(PropertyTypeError(http.value, "data"))
                      ELSE Normal(Get(http.value, "data"))
                 ELSE Throw(http.value)
        code == Get(tried.value, "code")
    IN IF tried.type = "normal"
       THEN IF code.t = "number" /\ code # Num(0)
            THEN Throw(ErrorLiteral(
                    OrElse(Get(tried.value, "message"), Str(defaultApiErrorMessage)),
                    code, Get(http.value, "status")))
            ELSE tried
       ELSE LET handled == handleError(tried.value)
            IN IF handled.type = "normal" THEN Throw(handled.value) ELSE handled

\* The body of each helper from the point where the awaited HTTP call has
\* settled: return response.data, or throw handleError(error) from the catch
\* block (which also catches the TypeError of reading response.data)
AfterAwait(http) ==
    LET tried == IF http.state = "fulfilled"
                 THEN IF IsNullish(http.value)
                      THEN Throw(PropertyTypeError(http.value, "data"))
                      ELSE Normal(Get(http.value, "data"))
                 ELSE Throw(http.value)
    IN IF tried.type = "normal"
       THEN tried
       ELSE LET handled == handleError(tried.value)
            IN IF handled.type = "normal" THEN Throw(handled.value) ELSE handled

(***************************************************************************)
(* Bounds and the values the callers and the HTTP layer supply              *)
(***************************************************************************)
MaxGateways == 2
MaxInFlight == 2

GatewayIds == 1..MaxGateways
CallIds == 1..MaxInFlight

\* Arguments of new KeyMint(accessToken, baseUrl)
ConstructorArgs ==
    {<<tok, Undefined>> : tok \in {Undefined, Null, Str(""), Str("tokA")}}
        \cup {<<Str("tokB"), Str("https://staging.keymint.test")>>}

KeyParams == Obj("Object", [productId |-> Str("P1"), licenseKey |-> Str("lk_ABC")])
KeyParamsWithHost ==
    Obj("Object", [productId |-> Str("P1"), licenseKey |-> Str("lk_ABC"),
                   hostId |-> Str("host-1")])
CustomerRef == Obj("Object", [customerId |-> Str("C1")])
CustomerUpdate ==
    Obj("Object", [customerId |-> Str("C1"), name |-> Str("Ann"), active |-> Bool(FALSE)])

\* The params a caller passes to each operation: none at all, an object
\* that lacks a required field, the required fields, and an object with a
\* further field
ParamsOf(op) ==
    CASE op = "createKey" ->
            {Undefined, Obj("Object", NoProps),
             Obj("Object", [productId |-> Str("P1")]),
             Obj("Object", [productId |-> Str("P1"), maxActivations |-> Str("5")])}
      [] op \in {"activateKey", "deactivateKey", "getKey", "blockKey", "unblockKey"} ->
            {Undefined, Obj("Object", [productId |-> Str("P1")]), KeyParams,
             KeyParamsWithHost}
      [] op = "createCustomer" ->
            {Undefined, Obj("Object", [name |-> Str("Ann"), email |-> Str("ann@example.com")])}
      [] op = "getAllCustomers" ->
            {Undefined, Obj("Object", [page |-> Num(1), limit |-> Num(10),
                                       email |-> Str("ann@example.com")])}
      [] OTHER -> {Undefined, Obj("Object", NoProps), CustomerRef, CustomerUpdate}

\* Response bodies of 2xx responses
SuccessBodies ==
    {Obj("Object", [code |-> Num(0), key |-> Str("lk_ABC")]),
     Obj("Object", [code |-> Num(1), status |-> Bool(FALSE),
                    message |-> Str("Customer not found")]),
     Str(""), Null}

\* What the HTTP layer fulfils a request with: a response object, or
\* nothing at all (a stub without a configured return value)
Responses ==
    {Obj("Object", [data |-> b, status |-> Num(200)]) : b \in SuccessBodies}
        \cup {Undefined}

\* Bodies of non-2xx responses
StructuredBodies ==
    {Obj("Object", [message |-> m, code |-> c]) :
        m \in {Str("Invalid license key"), Str(""), Num(5)},
        c \in {Num(2), Num(0), Num(-5), Str("2"), Null}}
        \cup {Obj("Object", [message |-> Str("Invalid license key")]),
              Obj("Object", [message |-> Null])}
UnstructuredBodies ==
    {Str("Bad Gateway"), Null, Undefined, Obj("Object", [error |-> Str("Conflict")]),
     Obj("Object", NoProps)}

\* An error of the HTTP layer that carries a response
AxiosResponseError(data, status) ==
    Obj("AxiosError",
        [isAxiosError |-> Bool(TRUE), message |-> Str("Request failed"),
         response |-> Obj("Object", [data |-> data, status |-> status])])

\* Failures that carry a response and no isAxiosError marker
UnmarkedResponseFailures ==
    {Obj("Object", [response |-> Obj("Object", [data |-> d, status |-> Num(400)])]) :
        d \in {Obj("Object", [message |-> Str("Invalid license key"), code |-> Num(2)]),
               Str("Bad Gateway")}}
        \cup {Obj("Object", [isAxiosLike |-> Bool(TRUE),
                             response |-> Obj("Object",
                                [data |-> Obj("Object", [message |-> Str("Invalid license key"),
                                                         code |-> Num(2)]),
                                 status |-> Num(400)])]),
              Obj("Object", [message |-> Str("Request failed with status code 400"),
                             response |-> Obj("Object",
                                [data |-> Obj("Object", [message |-> Str("Invalid license key"),
                                                         code |-> Num(2)]),
                                 status |-> Num(400)])])}

\* Failures without a response
NoResponseFailures ==
    {Obj("Error", [message |-> Str("Network connection failed")]),
     Obj("Error", [message |-> Str("")]),
     Obj("AxiosError", [isAxiosError |-> Bool(TRUE),
                        message |-> Str("timeout of 1000ms exceeded"),
                        code |-> Str("ECONNABORTED")]),
     Obj("Object", [code |-> Str("ECONNRESET")]),
     Str("aborted")}

\* What the HTTP layer rejects a request with
Failures ==
    {AxiosResponseError(d, Num(400)) : d \in StructuredBodies \cup UnstructuredBodies}
        \cup {AxiosResponseError(Obj("Object", [message |-> Str("Product not found"),
                                                code |-> Num(4041)]), Num(404)),
              AxiosResponseError(Obj("Object", [message |-> Str("Invalid license key"),
                                                code |-> Num(2)]), Undefined)}
        \cup UnmarkedResponseFailures
        \cup NoResponseFailures
        \cup {Null, Undefined}

(***************************************************************************)
(* State                                                                    *)
(***************************************************************************)
VARIABLES
    clients,    \* the clients axios.create has built, in order of creation
    gateways,   \* the KeyMint instances: apiClient is an index into clients
    ctorArgs,   \* for each instance, the arguments it was constructed with
    lastNew,    \* the latest evaluation of new KeyMint(...) and its completion
    calls       \* the invocations of operations, by call id

vars == <<clients, gateways, ctorArgs, lastNew, calls>>

\* A call id on which no operation has been invoked.  Besides the call's
\* position, arguments, request and outcome, a call records in overlapped
\* whether another call was in flight when it was invoked, and in returned
\* what the call expression evaluated to: a promise, or a throw.
IdleCall ==
    [pc |-> "idle", gw |-> 0, op |-> "none", params |-> Undefined, sent |-> <<>>,
     http |-> [state |-> "none", value |-> Undefined],
     outcome |-> "none", value |-> Undefined, overlapped |-> FALSE,
     returned |-> "none"]

Init ==
    /\ clients = <<>>
    /\ gateways = <<>>
    /\ ctorArgs = <<>>
    /\ lastNew = [accessToken |-> Undefined, baseUrl |-> Undefined,
                  type |-> "none", value |-> Undefined]
    /\ calls = [c \in CallIds |-> IdleCall]

\* Mutant of Construct: every gateway uses one client of the process, which
\* each construction configures again
Construct_SharedClient(accessToken, baseUrl) ==
    LET done == KeyMintConstructor(accessToken, baseUrl)
    IN IF done.type = "throw"
       THEN /\ lastNew' = [accessToken |-> accessToken, baseUrl |-> baseUrl,
                           type |-> "throw", value |-> done.value]
            /\ UNCHANGED <<clients, gateways, ctorArgs, calls>>
       ELSE /\ Len(gateways) < MaxGateways
            /\ clients' = <<done.value>>
            /\ gateways' = Append(gateways, [apiClient |-> 1])
            /\ ctorArgs' = Append(ctorArgs, [accessToken |-> accessToken, baseUrl |-> baseUrl])
            /\ lastNew' = [accessToken |-> accessToken, baseUrl |-> baseUrl,
                           type |-> "normal", value |-> Num(Len(gateways) + 1)]
            /\ UNCHANGED calls

\* new KeyMint(accessToken, baseUrl)
Construct(accessToken, baseUrl) ==
    LET done == KeyMintConstructor(accessToken, baseUrl)
    IN IF done.type = "throw"
       THEN /\ lastNew' = [accessToken |-> accessToken, baseUrl |-> baseUrl,
                           type |-> "throw", value |-> done.value]
            /\ UNCHANGED <<clients, gateways, ctorArgs, calls>>
       ELSE /\ Len(gateways) < MaxGateways
            /\ clients' = Append(clients, done.value)
            /\ gateways' = Append(gateways, [apiClient |-> Len(clients) + 1])
            /\ ctorArgs' = Append(ctorArgs, [accessToken |-> accessToken, baseUrl |-> baseUrl])
            /\ lastNew' = [accessToken |-> accessToken, baseUrl |-> baseUrl,
                           type |-> "normal", value |-> Num(Len(gateways) + 1)]
            /\ UNCHANGED calls

\* Mutant of Invoke: an operation called with an empty params object
\* sometimes fails locally and sometimes dispatches its request
Invoke_SometimesLocal(c, g, op, params) ==
    /\ calls[c].pc = "idle"
    /\ g \in 1..Len(gateways)
    /\ LET started == AsyncCall(op, params).body
           inFlight == \E d \in CallIds : calls[d].pc = "awaiting"
           local == [pc |-> "settled", gw |-> g, op |-> op, params |-> params,
                     sent |-> <<>>, http |-> [state |-> "none", value |-> Undefined],
                     outcome |-> "rejected",
                     value |-> IF started.type = "throw" THEN started.value
                               ELSE Obj("Error", [message |-> Str("Missing required field")]),
                     overlapped |-> inFlight, returned |-> "promise"]
       IN \/ /\ started.type = "throw" \/ params = Obj("Object", NoProps)
             /\ calls' = [calls EXCEPT ![c] = local]
          \/ /\ started.type = "normal"
             /\ calls' = [calls EXCEPT ![c] =
                    [pc |-> "awaiting", gw |-> g, op |-> op, params |-> params,
                     sent |-> <<[client |-> gateways[g].apiClient] @@ started.value>>,
                     http |-> HttpPending,
                     outcome |-> "pending", value |-> Undefined,
                     overlapped |-> inFlight, returned |-> "promise"]]
    /\ UNCHANGED <<clients, gateways, ctorArgs, lastNew>>

\* gateways[g][op](params), up to the point where the operation suspends at
\* its await or, when evaluating its arguments throws, rejects at once.  A
\* call that throws instead of returning a promise has no outcome.
Invoke(c, g, op, params) ==
    /\ calls[c].pc = "idle"
    /\ g \in 1..Len(gateways)
    /\ LET called == AsyncCall(op, params)
           started == called.body
           inFlight == \E d \in CallIds : calls[d].pc = "awaiting"
       IN calls' = [calls EXCEPT ![c] =
            IF started.type = "throw"
            THEN [pc |-> "settled", gw |-> g, op |-> op, params |-> params, sent |-> <<>>,
                  http |-> [state |-> "none", value |-> Undefined],
                  outcome |-> IF called.returned = "promise" THEN "rejected" ELSE "none",
                  value |-> started.value,
                  overlapped |-> inFlight, returned |-> called.returned]
            ELSE [pc |-> "awaiting", gw |-> g, op |-> op, params |-> params,
                  sent |-> <<[client |-> gateways[g].apiClient] @@ started.value>>,
                  http |-> HttpPending,
                  outcome |-> "pending", value |-> Undefined,
                  overlapped |-> inFlight, returned |-> called.returned]]
    /\ UNCHANGED <<clients, gateways, ctorArgs, lastNew>>

\* The HTTP layer fulfils the request of call c
HttpFulfil(c, response) ==
    /\ calls[c].pc = "awaiting"
    /\ calls[c].http.state = "pending"
    /\ calls' = [calls EXCEPT ![c].http = HttpFulfilled(response)]
    /\ UNCHANGED <<clients, gateways, ctorArgs, lastNew>>

\* The HTTP layer rejects the request of call c
HttpReject(c, error) ==
    /\ calls[c].pc = "awaiting"
    /\ calls[c].http.state = "pending"
    /\ calls' = [calls EXCEPT ![c].http = HttpRejected(error)]
    /\ UNCHANGED <<clients, gateways, ctorArgs, lastNew>>

\* Mutant of Resume: a call that fails clears the token of its gateway's
\* client
Resume_DropsToken(c) ==
    /\ calls[c].pc = "awaiting"
    /\ calls[c].http.state \in {"fulfilled", "rejected"}
    /\ LET done == AfterAwait(calls[c].http)
       IN /\ calls' = [calls EXCEPT ![c].pc = "settled",
                                    ![c].outcome = IF done.type = "normal"
                                                   THEN "resolved" ELSE "rejected",
                                    ![c].value = done.value]
          /\ clients' = IF done.type = "normal"
                        THEN clients
                        ELSE [clients EXCEPT
                                ![gateways[calls[c].gw].apiClient].headers["Authorization"] =
                                    "Bearer "]
    /\ UNCHANGED <<gateways, ctorArgs, lastNew>>

\* Mutant of Resume: the helpers keep the settled HTTP promise in a slot
\* shared by all calls, so a call resumes with the lowest-numbered settled
\* request rather than its own
Resume_SharedSlot(c) ==
    /\ calls[c].pc = "awaiting"
    /\ calls[c].http.state \in {"fulfilled", "rejected"}
    /\ LET d == CHOOSE x \in CallIds : calls[x].http.state \in {"fulfilled", "rejected"}
           done == AfterAwait(calls[d].http)
       IN calls' = [calls EXCEPT ![c].pc = "settled",
                                 ![c].outcome = IF done.type = "normal"
                                                THEN "resolved" ELSE "rejected",
                                 ![c].value = done.value]
    /\ UNCHANGED <<clients, gateways, ctorArgs, lastNew>>

\* Mutant of Resume: the helper of the GET operations has a catch block of
\* its own, which rejects with the failure as it is
Resume_OwnRuleForGet(c) ==
    /\ calls[c].pc = "awaiting"
    /\ calls[c].http.state \in {"fulfilled", "rejected"}
    /\ LET done == IF calls[c].http.state = "rejected" /\ calls[c].sent[1].method = "get"
                   THEN Throw(calls[c].http.value)
                   ELSE AfterAwait(calls[c].http)
       IN calls' = [calls EXCEPT ![c].pc = "settled",
                                 ![c].outcome = IF done.type = "normal"
                                                THEN "resolved" ELSE "rejected",
                                 ![c].value = done.value]
    /\ UNCHANGED <<clients, gateways, ctorArgs, lastNew>>

\* Mutant of Resume: a call whose request is still pending gives up with a
\* timeout error of the library
Resume_TimesOut(c) ==
    /\ calls[c].pc = "awaiting"
    /\ LET done == IF calls[c].http.state = "pending"
                   THEN Throw(ErrorLiteral(Str("Request timed out"), Num(-1), Undefined))
                   ELSE AfterAwait(calls[c].http)
       IN calls' = [calls EXCEPT ![c].pc = "settled",
                                 ![c].outcome = IF done.type = "normal"
                                                THEN "resolved" ELSE "rejected",
                                 ![c].value = done.value]
    /\ UNCHANGED <<clients, gateways, ctorArgs, lastNew>>

\* Call c resumes after its await and settles its promise
Resume(c) ==
    /\ calls[c].pc = "awaiting"
    /\ calls[c].http.state \in {"fulfilled", "rejected"}
    /\ LET done == AfterAwait(calls[c].http)
       IN calls' = [calls EXCEPT ![c].pc = "settled",
                                 ![c].outcome = IF done.type = "normal"
                                                THEN "resolved" ELSE "rejected",
                                 ![c].value = done.value]
    /\ UNCHANGED <<clients, gateways, ctorArgs, lastNew>>

\* The caller has handled the outcome of call c: its try/catch block around
\* the awaited call is left and the call id is free for the next call
Handled(c) ==
    /\ calls[c].pc = "settled"
    /\ calls' = [calls EXCEPT ![c] = IdleCall]
    /\ UNCHANGED <<clients, gateways, ctorArgs, lastNew>>

\* One caller that awaits each call before it makes the next
FirstCall == {c \in CallIds : \A d \in CallIds : c <= d}

Next ==
    \/ \E a \in ConstructorArgs : Construct(a[1], a[2])
    \/ \E c \in FirstCall, g \in GatewayIds, op \in Operations :
          \E params \in ParamsOf(op) : Invoke(c, g, op, params)
    \/ \E c \in FirstCall, response \in Responses : HttpFulfil(c, response)
    \/ \E c \in FirstCall, error \in Failures : HttpReject(c, error)
    \/ \E c \in FirstCall : Resume(c)
    \/ \E c \in FirstCall : Handled(c)

Spec == Init /\ [][Next]_vars

\* Callers that do not wait: up to MaxInFlight calls are in flight at once,
\* on any of the gateways, and the HTTP layer settles their requests in any
\* order
ConcurrentOperations == {"createKey", "getKey"}
ConcurrentConstructorArgs == {a \in ConstructorArgs : Truthy(a[1])}
ConcurrentResponses ==
    {Obj("Object", [data |-> Obj("Object", [code |-> Num(0), key |-> Str("lk_ABC")]),
                    status |-> Num(200)])}
ConcurrentFailures ==
    {AxiosResponseError(Obj("Object", [message |-> Str("Invalid license key"),
                                       code |-> Num(2)]), Num(400))}

NextConcurrent ==
    \/ \E a \in ConcurrentConstructorArgs : Construct(a[1], a[2])
    \/ \E c \in CallIds, g \in GatewayIds, op \in ConcurrentOperations :
          Invoke(c, g, op, KeyParams)
    \/ \E c \in CallIds, response \in ConcurrentResponses : HttpFulfil(c, response)
    \/ \E c \in CallIds, error \in ConcurrentFailures : HttpReject(c, error)
    \/ \E c \in CallIds : Resume(c)
    \/ \E c \in CallIds : Handled(c)

SpecConcurrent == Init /\ [][NextConcurrent]_vars

\* Callers that do not wait and an HTTP layer that fails: one operation for
\* each of the four helpers (POST, GET, PUT, DELETE), with different params,
\* and failures of each class
FailingOperations == {"createKey", "getKey", "updateCustomer", "deleteCustomer"}
FailingParamsOf(op) ==
    CASE op = "createKey" -> {Obj("Object", [productId |-> Str("P1")])}
      [] op = "getKey" -> {KeyParams, KeyParamsWithHost}
      [] op = "updateCustomer" -> {CustomerUpdate}
      [] OTHER -> {CustomerRef}
FailingConstructorArgs == {<<Str("tokA"), Undefined>>}
FailingFailures ==
    {AxiosResponseError(Obj("Object", [message |-> Str("Invalid license key"),
                                       code |-> Num(2)]), Num(400)),
     AxiosResponseError(Str("Bad Gateway"), Num(400)),
     Obj("Error", [message |-> Str("Network connection failed")]),
     Null}

NextFailing ==
    \/ \E a \in FailingConstructorArgs : Construct(a[1], a[2])
    \/ \E c \in CallIds, g \in GatewayIds, op \in FailingOperations :
          \E params \in FailingParamsOf(op) : Invoke(c, g, op, params)
    \/ \E c \in CallIds, response \in ConcurrentResponses : HttpFulfil(c, response)
    \/ \E c \in CallIds, error \in FailingFailures : HttpReject(c, error)
    \/ \E c \in CallIds : Resume(c)
    \/ \E c \in CallIds : Handled(c)

SpecFailing == Init /\ [][NextFailing]_vars

\* Callers of one gateway that do not wait, with a fair job queue and a fair
\* HTTP layer: a continuation whose awaited promise has settled is run, and
\* the HTTP layer settles every request that stays pending.  getKey is
\* called with and without a params object.
FairConstructorArgs == {<<Str("tokA"), Undefined>>}
FairGateway == 1
FairOperations == {"getKey"}
FairParamsOf(op) == {Undefined, KeyParams}

\* The HTTP layer settles the request of call c, one way or the other
HttpSettle(c) ==
    \/ \E response \in ConcurrentResponses : HttpFulfil(c, response)
    \/ \E error \in ConcurrentFailures : HttpReject(c, error)

NextFair ==
    \/ \E a \in FairConstructorArgs : Construct(a[1], a[2])
    \/ \E c \in CallIds, op \in FairOperations :
          \E params \in FairParamsOf(op) : Invoke(c, FairGateway, op, params)
    \/ \E c \in CallIds : HttpSettle(c)
    \/ \E c \in CallIds : Resume(c)
    \/ \E c \in CallIds : Handled(c)

Fairness ==
    \A c \in CallIds : WF_vars(HttpSettle(c)) /\ WF_vars(Resume(c))

SpecFair == Init /\ [][NextFair]_vars /\ Fairness

(***************************************************************************)
(* Properties                                                               *)
(***************************************************************************)
Settled(c) == calls[c].pc = "settled"
RejectedBy(c) == calls[c].http.state = "rejected"

\* v is a plain object with exactly the fields message, code and status
IsNormalizedError(v) ==
    /\ v.t = "object"
    /\ v.class = "Object"
    /\ DOMAIN v.props = {"message", "code", "status"}

\* e is a failure of the HTTP layer that carries a response: an error marked
\* isAxiosError with a response object
CarriesResponse(e) ==
    /\ e.t = "object"
    /\ Get(e, "isAxiosError") = Bool(TRUE)
    /\ Get(e, "response").t = "object"

\* e carries a response object and no isAxiosError marker
CarriesUnmarkedResponse(e) ==
    /\ e.t = "object"
    /\ ~HasProp(e, "isAxiosError")
    /\ Get(e, "response").t = "object"

\* body is {message: m, code: c} with m a non-empty string and c a number
IsStructuredBody(body) ==
    /\ body.t = "object"
    /\ HasProp(body, "message") /\ body.props["message"].t = "string"
    /\ body.props["message"].s # ""
    /\ HasProp(body, "code") /\ body.props["code"].t = "number"

\* C1: every invocation of an operation that settles either resolves with
\* the body of the response to its request or rejects with a normalized
\* error, never both and never neither.
C1_ExactlyOneOutcome ==
    \A c \in CallIds :
        Settled(c) =>
            \/ /\ calls[c].outcome = "resolved"
               /\ calls[c].http.state = "fulfilled"
               /\ calls[c].value = Get(calls[c].http.value, "data")
            \/ /\ calls[c].outcome = "rejected"
               /\ IsNormalizedError(calls[c].value)

\* C2: when the HTTP layer fulfils the request of an operation with
\* {data: B}, the operation resolves with exactly B.
C2_PassThrough ==
    \A c \in CallIds, body \in SuccessBodies :
        (Settled(c) /\ calls[c].http = HttpFulfilled(
                            Obj("Object", [data |-> body, status |-> Num(200)])))
            => (calls[c].outcome = "resolved" /\ calls[c].value = body)

C2_Witness ==
    \E c \in CallIds :
        /\ Settled(c) /\ calls[c].op = "getKey" /\ calls[c].outcome = "resolved"
        /\ calls[c].value = Obj("Object", [code |-> Num(0), key |-> Str("lk_ABC")])

\* C3: when the HTTP layer rejects with an error marked isAxiosError whose
\* response is {data: {message: m, code: c}, status: s}, m a non-empty string
\* and c a number, the operation rejects with message m, code c and status s.
C3_StructuredApiError ==
    \A c \in CallIds :
        LET e == calls[c].http.value
            response == Get(e, "response")
            body == Get(response, "data")
        IN (Settled(c) /\ RejectedBy(c) /\ CarriesResponse(e) /\ IsStructuredBody(body))
            => /\ calls[c].outcome = "rejected"
               /\ calls[c].value.t = "object"
               /\ Get(calls[c].value, "message") = body.props["message"]
               /\ Get(calls[c].value, "code") = body.props["code"]
               /\ Get(calls[c].value, "status") = Get(response, "status")

C3_Witness ==
    \E c \in CallIds :
        /\ Settled(c) /\ calls[c].op = "createCustomer"
        /\ calls[c].http = HttpRejected(AxiosResponseError(
                Obj("Object", [message |-> Str("Product not found"), code |-> Num(4041)]),
                Num(404)))
        /\ calls[c].outcome = "rejected"
        /\ calls[c].value = ErrorLiteral(Str("Product not found"), Num(4041), Num(404))

C5_UnstructuredBody ==
    \A c \in CallIds :
        LET e == calls[c].http.value
            response == Get(e, "response")
            body == Get(response, "data")
        IN (Settled(c) /\ RejectedBy(c) /\ CarriesResponse(e)
                /\ ~(body.t = "object" /\ HasProp(body, "message")))
            => /\ calls[c].outcome = "rejected"
               /\ calls[c].value =
                    ErrorLiteral(Str("An API error occurred during the request."),
                                 Num(-1), Get(response, "status"))

C5_Witness ==
    \E c \in CallIds :
        /\ Settled(c) /\ calls[c].op = "deleteCustomer"
        /\ calls[c].http = HttpRejected(AxiosResponseError(Str("Bad Gateway"), Num(400)))
        /\ calls[c].value = ErrorLiteral(Str("An API error occurred during the request."),
                                         Num(-1), Num(400))

C7_NoRawFailure ==
    \A c \in CallIds :
        (Settled(c) /\ calls[c].outcome = "rejected")
            => \E e \in Failures \cup {PropertyTypeError(v, k) :
                                        v \in {Undefined, Null},
                                        k \in {"productId", "customerId", "data"}} :
                  calls[c].value = handleError(e).value /\ handleError(e).type = "normal"

\* C8: every error an operation throws for an error body returned by the
\* server is a plain object whose message is a string, whose code is a
\* number and whose status is a number or absent.
C8_ErrorShape ==
    \A c \in CallIds :
        (Settled(c) /\ RejectedBy(c) /\ CarriesResponse(calls[c].http.value))
            => /\ calls[c].outcome = "rejected"
               /\ IsNormalizedError(calls[c].value)
               /\ calls[c].value.props["message"].t = "string"
               /\ calls[c].value.props["code"].t = "number"
               /\ calls[c].value.props["status"].t \in {"number", "undefined"}

\* C9: constructing the gateway with an empty or absent access token throws
\* 'Access token is required to initialize the SDK.'; no client is created,
\* no request is sent and no gateway instance exists afterwards.
C9_EmptyTokenThrows ==
    [][(lastNew' # lastNew /\ lastNew'.accessToken \in {Str(""), Undefined, Null})
        => /\ lastNew'.type = "throw"
           /\ lastNew'.value.t = "object" /\ lastNew'.value.class = "Error"
           /\ Get(lastNew'.value, "message")
                = Str("Access token is required to initialize the SDK.")
           /\ clients' = clients
           /\ gateways' = gateways
           /\ ctorArgs' = ctorArgs
           /\ calls' = calls]_vars

C9_Witness ==
    /\ lastNew.type = "throw"
    /\ lastNew.accessToken = Str("")
    /\ Len(gateways) = 1
    /\ Len(clients) = 1

\* C10: every request issued by an operation of a gateway constructed with
\* token T is sent through the client configured with
\* Authorization = 'Bearer T' and Content-Type = 'application/json'.
C10_BearerHeader ==
    \A c \in CallIds :
        \A i \in 1..Len(calls[c].sent) :
            LET client == calls[c].sent[i].client
                T == ctorArgs[calls[c].gw].accessToken
            IN /\ client \in 1..Len(clients)
               /\ T.t = "string"
               /\ clients[client].headers["Authorization"] = "Bearer " \o T.s
               /\ clients[client].headers["Content-Type"] = "application/json"

C10_Witness ==
    \E c \in CallIds :
        /\ Len(calls[c].sent) = 1
        /\ calls[c].gw = 2
        /\ ctorArgs[2].accessToken = Str("tokB")
        /\ ctorArgs[1].accessToken = Str("tokA")
        /\ clients[calls[c].sent[1].client].headers["Authorization"] = "Bearer tokB"

\* C11: no step of any operation, successful or failing, changes a gateway
\* that exists: its apiClient reference, the Authorization header and the
\* baseURL of that client, and the token and base URL it was constructed
\* with are the same after the step as before it.
C11_ConfigurationFrame ==
    [][\A g \in 1..Len(gateways) :
          /\ g \in 1..Len(gateways')
          /\ gateways'[g].apiClient = gateways[g].apiClient
          /\ gateways'[g].apiClient \in 1..Len(clients')
          /\ clients'[gateways'[g].apiClient].headers["Authorization"]
                = clients[gateways[g].apiClient].headers["Authorization"]
          /\ clients'[gateways'[g].apiClient].baseURL
                = clients[gateways[g].apiClient].baseURL
          /\ ctorArgs'[g] = ctorArgs[g]]_vars

\* A failed call has settled on the first of two gateways, and both clients
\* still have the configuration they were created with
C11_Witness ==
    /\ Len(gateways) = 2
    /\ \E c \in CallIds :
        /\ Settled(c) /\ calls[c].outcome = "rejected" /\ RejectedBy(c)
        /\ calls[c].gw = 1 /\ Len(calls[c].sent) = 1
    /\ ctorArgs[1] = [accessToken |-> Str("tokA"), baseUrl |-> Undefined]
    /\ clients[gateways[1].apiClient] = ClientConfig(Str("tokA"), Str(DefaultBaseUrl))
    /\ clients[gateways[2].apiClient]
            = ClientConfig(Str("tokB"), Str("https://staging.keymint.test"))

\* The interface table: the HTTP method and the path of each operation
InterfaceTable ==
    [op \in Operations |->
        CASE op = "createKey" -> <<"post", "/key">>
          [] op = "activateKey" -> <<"post", "/key/activate">>
          [] op = "deactivateKey" -> <<"post", "/key/deactivate">>
          [] op = "getKey" -> <<"get", "/key">>
          [] op = "blockKey" -> <<"post", "/key/block">>
          [] op = "unblockKey" -> <<"post", "/key/unblock">>
          [] op = "createCustomer" -> <<"post", "/customer">>
          [] op = "getAllCustomers" -> <<"get", "/customer">>
          [] op = "getCustomerById" -> <<"get", "/customer/by-id">>
          [] op = "getCustomerWithKeys" -> <<"get", "/customer/keys">>
          [] op = "updateCustomer" -> <<"put", "/customer/by-id">>
          [] op = "toggleCustomerStatus" -> <<"post", "/customer/disable">>
          [] OTHER -> <<"delete", "/customer/by-id">>]

\* The paths of the previous API version
LegacyPaths ==
    {"/create-key", "/activate-key", "/deactivate-key", "/get-key", "/block-key",
     "/unblock-key"}

C14_DeleteCustomerQuery ==
    \A c \in CallIds :
        (calls[c].op = "deleteCustomer"
                /\ (~IsNullish(calls[c].params) \/ calls[c].sent # <<>>))
            => /\ Len(calls[c].sent) = 1
               /\ calls[c].sent[1].method = "delete"
               /\ calls[c].sent[1].url = "/customer/by-id"
               /\ calls[c].sent[1].data = Absent
               /\ calls[c].sent[1].config =
                    Obj("Object",
                        [params |-> Obj("Object",
                            [customerId |-> Get(calls[c].params, "customerId")])])

\* deleteCustomer({customerId: "C1"}) has issued its request
C14_Witness ==
    \E c \in CallIds :
        /\ calls[c].op = "deleteCustomer" /\ calls[c].params = CustomerRef
        /\ Len(calls[c].sent) = 1
        /\ calls[c].sent[1].method = "delete"
        /\ calls[c].sent[1].config = Obj("Object", [params |-> CustomerRef])

\* C15: every invocation of an operation issues exactly one HTTP request,
\* whether the request succeeds or fails: from the invocation on the call
\* has sent one request and never a second one, and a call whose request
\* failed rejects.
C15_ExactlyOneRequest ==
    \A c \in CallIds :
        /\ calls[c].pc # "idle" => Len(calls[c].sent) = 1
        /\ (Settled(c) /\ RejectedBy(c)) => calls[c].outcome = "rejected"

\* C16: with several calls in flight at once and their requests settled in
\* any order, a settled call has the outcome of its own request: it resolved
\* with the body of the response to its request, or rejected with the
\* normalization of the failure of its request, whatever the other calls
\* received and whenever they received it.
C16_OwnOutcomeOnly ==
    \A c \in CallIds :
        LET http == calls[c].http
            failure == IF http.state = "rejected"
                       THEN http.value
                       ELSE PropertyTypeError(http.value, "data")
        IN (Settled(c) /\ calls[c].sent # <<>>)
            => IF http.state = "fulfilled" /\ ~IsNullish(http.value)
               THEN /\ calls[c].outcome = "resolved"
                    /\ calls[c].value = Get(http.value, "data")
               ELSE /\ http.state \in {"fulfilled", "rejected"}
                    /\ calls[c].outcome = "rejected"
                    /\ calls[c].value = handleError(failure).value

\* Two calls of the same operation with the same params on the same gateway
\* were in flight at once (the second was invoked while the first waited for
\* its response); the first has rejected with the normalized failure of its
\* own request while the second, whose request was answered with a body, has
\* not resumed yet
C16_Witness ==
    \E c, d \in CallIds :
        /\ c # d /\ calls[c].gw = calls[d].gw
        /\ calls[c].op = calls[d].op /\ calls[c].params = calls[d].params
        /\ ~calls[c].overlapped /\ calls[d].overlapped
        /\ Settled(c) /\ calls[c].outcome = "rejected"
        /\ calls[c].value = ErrorLiteral(Str("Invalid license key"), Num(2), Num(400))
        /\ calls[d].pc = "awaiting"
        /\ calls[d].http = HttpFulfilled(
                Obj("Object", [data |-> Obj("Object", [code |-> Num(0), key |-> Str("lk_ABC")]),
                               status |-> Num(200)]))

C18_StatusAndCode ==
    \A c \in CallIds :
        LET response == IF RejectedBy(c) THEN Get(calls[c].http.value, "response")
                        ELSE Undefined
            body == Get(response, "data")
        IN (Settled(c) /\ calls[c].outcome = "rejected")
            => /\ Get(calls[c].value, "status") # Undefined
                    => Get(response, "status").t = "number"
               /\ (response.t # "object" \/ ~(body.t = "object" /\ HasProp(body, "message")))
                    => Get(calls[c].value, "code") = Num(-1)

\* The operations on license keys
KeyOperations ==
    {"createKey", "activateKey", "deactivateKey", "getKey", "blockKey", "unblockKey"}

\* e is a failure without an HTTP response, such as a plain Error
IsFailureWithoutResponse(e) == e.t = "object" /\ ~HasProp(e, "response")

RequiredFields ==
    [op \in Operations |->
        CASE op = "createKey" -> {"productId"}
          [] op \in {"activateKey", "deactivateKey", "getKey", "blockKey", "unblockKey"} ->
                {"productId", "licenseKey"}
          [] op = "createCustomer" -> {"name", "email"}
          [] op = "getAllCustomers" -> {}
          [] OTHER -> {"customerId"}]

\* params lacks a field that op requires
OmitsRequiredField(op, params) == \E f \in RequiredFields[op] : Get(params, f) = Undefined

\* The inputs that fail locally: no params object at all, for the
\* operations that read fields of params
FailsLocally(op, params) ==
    /\ op \in {"getKey", "getCustomerById", "getCustomerWithKeys", "toggleCustomerStatus",
               "deleteCustomer"}
    /\ IsNullish(params)

\* C20: what happens to a call that omits a required field is fixed by its
\* input.  With no params object at all, getKey, getCustomerById,
\* getCustomerWithKeys, toggleCustomerStatus and deleteCustomer fail locally
\* and no request is dispatched; every other call that omits a required
\* field (such as createKey({})) dispatches its request, and when the remote
\* service rejects it with a structured API error the call fails with the
\* message, code and status of that rejection.
C20_OmissionDeterministic ==
    \A c \in CallIds :
        LET e == calls[c].http.value
            response == Get(e, "response")
            body == Get(response, "data")
        IN (calls[c].pc # "idle" /\ OmitsRequiredField(calls[c].op, calls[c].params))
            => IF FailsLocally(calls[c].op, calls[c].params)
               THEN /\ calls[c].sent = <<>>
                    /\ Settled(c) /\ calls[c].outcome = "rejected"
               ELSE /\ Len(calls[c].sent) = 1
                    /\ (Settled(c) /\ RejectedBy(c) /\ CarriesResponse(e)
                            /\ IsStructuredBody(body))
                        => /\ calls[c].outcome = "rejected"
                           /\ calls[c].value =
                                ErrorLiteral(body.props["message"], body.props["code"],
                                             Get(response, "status"))

\* createKey({}) dispatched its request, the remote service rejected it and
\* the call failed with the structured API error of that rejection
C20_Witness ==
    \E c \in CallIds :
        /\ calls[c].op = "createKey" /\ calls[c].params = Obj("Object", NoProps)
        /\ Len(calls[c].sent) = 1 /\ calls[c].sent[1].data = Obj("Object", NoProps)
        /\ Settled(c)
        /\ calls[c].http = HttpRejected(AxiosResponseError(
                Obj("Object", [message |-> Str("Invalid license key"), code |-> Num(2)]),
                Num(400)))
        /\ calls[c].value = ErrorLiteral(Str("Invalid license key"), Num(2), Num(400))

\* The operations that send their params as the request body with POST
\* and forward the params object as it is
BodyOperations ==
    {"createKey", "activateKey", "deactivateKey", "blockKey", "unblockKey", "createCustomer"}

\* C21: every invocation of createKey, activateKey, deactivateKey, blockKey,
\* unblockKey or createCustomer issues one request whose body is exactly the
\* caller's params, with the fields the caller supplied and no others, and
\* which carries no query parameters.
C21_BodyIsParams ==
    \A c \in CallIds :
        (calls[c].pc # "idle" /\ calls[c].op \in BodyOperations)
            => /\ Len(calls[c].sent) = 1
               /\ calls[c].sent[1].method = "post"
               /\ calls[c].sent[1].data = calls[c].params
               /\ calls[c].sent[1].config = Absent

\* createKey({productId: "P1"}) has sent a body without maxActivations
C21_Witness ==
    \E c \in CallIds :
        /\ calls[c].op = "createKey"
        /\ calls[c].params = Obj("Object", [productId |-> Str("P1")])
        /\ Len(calls[c].sent) = 1
        /\ calls[c].sent[1].data = Obj("Object", [productId |-> Str("P1")])
        /\ ~HasProp(calls[c].sent[1].data, "maxActivations")

\* C22: every invocation of getAllCustomers issues one GET to /customer
\* with no body whose query parameters are the params the caller passed:
\* undefined when it was called without arguments, and otherwise exactly the
\* fields supplied.
C22_GetAllCustomersQuery ==
    \A c \in CallIds :
        (calls[c].pc # "idle" /\ calls[c].op = "getAllCustomers")
            => /\ Len(calls[c].sent) = 1
               /\ calls[c].sent[1].method = "get"
               /\ calls[c].sent[1].url = "/customer"
               /\ calls[c].sent[1].data = Absent
               /\ calls[c].sent[1].config = Obj("Object", [params |-> calls[c].params])

\* getAllCustomers() has issued its request with params undefined
C22_Witness ==
    \E c \in CallIds :
        /\ calls[c].op = "getAllCustomers" /\ calls[c].params = Undefined
        /\ Len(calls[c].sent) = 1
        /\ calls[c].sent[1].method = "get"
        /\ calls[c].sent[1].config = Obj("Object", [params |-> Undefined])

\* C23: the call of an operation always returns a promise and never throws
\* to its caller; an operation that fails before it dispatches a request
\* (absent params) has rejected that promise.  Only the constructor throws.
C23_AlwaysPromise ==
    \A c \in CallIds :
        calls[c].pc # "idle"
            => /\ calls[c].returned = "promise"
               /\ calls[c].outcome \in {"pending", "resolved", "rejected"}
               /\ calls[c].sent = <<>> => (Settled(c) /\ calls[c].outcome = "rejected")

\* getKey() without params returned a promise, rejected with the TypeError,
\* and sent nothing
C23_Witness ==
    \E c \in CallIds :
        /\ calls[c].op = "getKey" /\ calls[c].params = Undefined
        /\ calls[c].returned = "promise"
        /\ Settled(c) /\ calls[c].outcome = "rejected"
        /\ calls[c].value = PropertyTypeError(Undefined, "productId")
        /\ calls[c].sent = <<>>

\* body is an object with a message field
HasMessageField(body) == body.t = "object" /\ HasProp(body, "message")

\* C24: when the failure carries a response whose body is an object with a
\* message field, the normalized error has the code of the body when that
\* is a number (0 and negative numbers included) and -1 when it is missing,
\* null or a string; its status is the status of the response and its
\* message is the message of the body (the fixed fallback when that is
\* empty).
C24_CodeNumericOrMinusOne ==
    \A c \in CallIds :
        LET e == calls[c].http.value
            response == Get(e, "response")
            body == Get(response, "data")
            code == Get(body, "code")
        IN (Settled(c) /\ RejectedBy(c) /\ CarriesResponse(e) /\ HasMessageField(body))
            => /\ calls[c].outcome = "rejected"
               /\ IsNormalizedError(calls[c].value)
               /\ calls[c].value.props["code"] = IF code.t = "number" THEN code ELSE Num(-1)
               /\ calls[c].value.props["status"] = Get(response, "status")
               /\ calls[c].value.props["message"] =
                    IF Truthy(body.props["message"]) THEN body.props["message"]
                    ELSE Str("An API error occurred during the request.")

\* A body whose code is the string "2": the error has code -1 and keeps the
\* message and the status
C24_Witness ==
    \E c \in CallIds :
        /\ Settled(c)
        /\ calls[c].http = HttpRejected(AxiosResponseError(
                Obj("Object", [message |-> Str("Invalid license key"), code |-> Str("2")]),
                Num(400)))
        /\ calls[c].value = ErrorLiteral(Str("Invalid license key"), Num(-1), Num(400))

\* C25: when the failure carries a response whose body has an empty message,
\* the normalized error has the message 'An API error occurred during the
\* request.', the code of the body when that is a number (else -1) and the
\* status of the response; and no failure that carries a response is given
\* the message 'An unexpected error occurred.'.
C25_EmptyMessageFallback ==
    \A c \in CallIds :
        LET e == calls[c].http.value
            response == Get(e, "response")
            body == Get(response, "data")
            code == Get(body, "code")
        IN (Settled(c) /\ RejectedBy(c) /\ CarriesResponse(e))
            => /\ calls[c].outcome = "rejected"
               /\ Get(calls[c].value, "message") # Str("An unexpected error occurred.")
               /\ (HasMessageField(body) /\ body.props["message"] = Str(""))
                    => calls[c].value =
                            ErrorLiteral(Str("An API error occurred during the request."),
                                         IF code.t = "number" THEN code ELSE Num(-1),
                                         Get(response, "status"))

\* A body {message: '', code: 2} with status 400: the error has the fallback
\* message, code 2 and status 400
C25_Witness ==
    \E c \in CallIds :
        /\ Settled(c)
        /\ calls[c].http = HttpRejected(AxiosResponseError(
                Obj("Object", [message |-> Str(""), code |-> Num(2)]), Num(400)))
        /\ calls[c].value = ErrorLiteral(Str("An API error occurred during the request."),
                                         Num(2), Num(400))

\* C26: when the HTTP layer resolves the request with a response, the
\* operation resolves with the body of that response whatever the body
\* says: a body with a non-zero code or with status false is returned as it
\* is and the operation does not reject.
C26_ResolvedIsSuccess ==
    \A c \in CallIds :
        LET response == calls[c].http.value
            body == Get(response, "data")
        IN (Settled(c) /\ calls[c].http.state = "fulfilled" /\ response.t = "object")
            => /\ calls[c].outcome = "resolved"
               /\ calls[c].value = body
               /\ (Get(body, "code") # Num(0) \/ Get(body, "status") = Bool(FALSE))
                    => calls[c].value # handleError(response).value

\* A 2xx response with the body {code: 1, status: false, message}: the
\* operation resolved with that body
C26_Witness ==
    \E c \in CallIds :
        /\ Settled(c) /\ calls[c].http.state = "fulfilled"
        /\ Get(calls[c].http.value, "status") = Num(200)
        /\ calls[c].outcome = "resolved"
        /\ calls[c].value = Obj("Object", [code |-> Num(1), status |-> Bool(FALSE),
                                           message |-> Str("Customer not found")])

\* C27: updateCustomer(params) issues one PUT to the fixed path
\* /customer/by-id; the body of the request is the params object itself,
\* customerId included, and the request has no query parameters.
C27_UpdateCustomerPut ==
    \A c \in CallIds :
        (calls[c].pc # "idle" /\ calls[c].op = "updateCustomer")
            => /\ Len(calls[c].sent) = 1
               /\ calls[c].sent[1].method = "put"
               /\ calls[c].sent[1].url = "/customer/by-id"
               /\ calls[c].sent[1].data = calls[c].params
               /\ calls[c].sent[1].config = Absent

\* updateCustomer was called with a customerId and further fields and its
\* PUT carries all of them in the body
C27_Witness ==
    \E c \in CallIds :
        /\ calls[c].pc # "idle" /\ calls[c].op = "updateCustomer"
        /\ calls[c].params = CustomerUpdate
        /\ Len(calls[c].sent) = 1
        /\ calls[c].sent[1].method = "put"
        /\ Get(calls[c].sent[1].data, "customerId") = Str("C1")
        /\ Get(calls[c].sent[1].data, "name") = Str("Ann")

\* C28: gateways of one process do not affect each other.  No two gateways
\* have the same client, and in every state every request of a call made
\* through a gateway was sent through the client of that gateway, which has
\* the token and the base URL that gateway was constructed with, whatever
\* gateways were constructed before or after it.
C28_GatewayIsolation ==
    /\ \A g, h \in 1..Len(gateways) :
          g # h => gateways[g].apiClient # gateways[h].apiClient
    /\ \A c \in CallIds :
          \A i \in 1..Len(calls[c].sent) :
              LET A == calls[c].gw
                  args == ctorArgs[A]
              IN /\ calls[c].sent[i].client = gateways[A].apiClient
                 /\ clients[gateways[A].apiClient]
                        = ClientConfig(args.accessToken,
                                       IF args.baseUrl = Undefined
                                       THEN Str(DefaultBaseUrl) ELSE args.baseUrl)

\* Gateway 1 (tokA, default URL) was constructed before gateway 2 (tokB,
\* staging URL).  A call through gateway 2 ran alone and has settled; a call
\* through gateway 1 was invoked while that call was in flight, so after
\* gateway 2 existed, and its request went through the client of gateway 1.
C28_Witness ==
    /\ Len(gateways) = 2
    /\ ctorArgs[1] = [accessToken |-> Str("tokA"), baseUrl |-> Undefined]
    /\ ctorArgs[2] = [accessToken |-> Str("tokB"),
                      baseUrl |-> Str("https://staging.keymint.test")]
    /\ \E c, d \in CallIds :
        /\ calls[d].gw = 2 /\ Settled(d) /\ ~calls[d].overlapped /\ Len(calls[d].sent) = 1
        /\ calls[c].gw = 1 /\ calls[c].overlapped /\ Len(calls[c].sent) = 1
        /\ clients[calls[c].sent[1].client].headers["Authorization"] = "Bearer tokA"
        /\ clients[calls[c].sent[1].client].baseURL = Str(DefaultBaseUrl)
        /\ clients[calls[d].sent[1].client].headers["Authorization"] = "Bearer tokB"

\* The operations whose request carries { customerId: params.customerId }
CustomerIdOperations ==
    {"toggleCustomerStatus", "getCustomerById", "getCustomerWithKeys", "deleteCustomer"}

\* What a request carries of the params: its body (POST, PUT) or its query
\* (GET, DELETE)
Forwarded(request) ==
    IF request.method \in {"post", "put"}
    THEN request.data
    ELSE Get(request.config, "params")

\* C29: the request of toggleCustomerStatus, getCustomerById,
\* getCustomerWithKeys and deleteCustomer carries an object whose only field
\* is customerId, with the value of that field of params (in the body for
\* toggleCustomerStatus, in the query for the others), so no other field of
\* params is forwarded; the request of createKey and of updateCustomer
\* carries the params object itself, every field included.
C29_OnlyCustomerId ==
    \A c \in CallIds :
        \A i \in 1..Len(calls[c].sent) :
            LET request == calls[c].sent[i]
            IN /\ calls[c].op \in CustomerIdOperations
                    => /\ Forwarded(request).t = "object"
                       /\ DOMAIN Forwarded(request).props = {"customerId"}
                       /\ Get(Forwarded(request), "customerId")
                            = Get(calls[c].params, "customerId")
                       /\ (calls[c].op = "toggleCustomerStatus") = (request.method = "post")
                       /\ request.method # "post" => request.data = Absent
               /\ calls[c].op \in {"createKey", "updateCustomer"}
                    => Forwarded(request) = calls[c].params

\* toggleCustomerStatus was called with {customerId, name, active} and its
\* body is {customerId} alone
C29_Witness ==
    \E c \in CallIds :
        /\ calls[c].op = "toggleCustomerStatus" /\ calls[c].params = CustomerUpdate
        /\ Len(calls[c].sent) = 1
        /\ calls[c].sent[1].data = CustomerRef
        /\ calls[c].sent[1].config = Absent

\* The request of call c has been resolved or rejected by the HTTP layer
RequestSettled(c) == calls[c].http.state \in {"fulfilled", "rejected"}

\* C30: an operation that dispatched a request settles exactly when that
\* request settles.  It does not settle before: while the request is pending
\* the promise of the operation is pending, a settled operation that sent a
\* request has a settled request, and the step that settles an awaiting
\* operation starts from a settled request and leaves the request as it is
\* (no timeout, no cancellation).  It settles after: once the HTTP layer has
\* resolved or rejected the request the operation eventually resolves or
\* rejects, so with an HTTP layer that settles every request every awaiting
\* operation eventually settles.
C30_SettlesWithRequest ==
    /\ [](\A c \in CallIds :
            /\ (calls[c].pc = "awaiting" /\ ~RequestSettled(c))
                    => calls[c].outcome = "pending"
            /\ (Settled(c) /\ calls[c].sent # <<>>)
                    => (RequestSettled(c) /\ calls[c].outcome \in {"resolved", "rejected"}))
    /\ [][\A c \in CallIds :
            (calls[c].pc = "awaiting" /\ calls'[c].pc = "settled")
                => (RequestSettled(c) /\ calls'[c].http = calls[c].http
                        /\ calls'[c].sent = calls[c].sent)]_vars
    /\ \A c \in CallIds :
            (calls[c].pc = "awaiting" /\ RequestSettled(c)) ~> Settled(c)
    /\ \A c \in CallIds :
            (calls[c].pc = "awaiting") ~> Settled(c)

\* One operation has rejected after its request was rejected while another,
\* invoked while the first was in flight, still waits for its pending request
C30_Witness ==
    \E c, d \in CallIds :
        /\ Settled(c) /\ Len(calls[c].sent) = 1
        /\ calls[c].http.state = "rejected" /\ calls[c].outcome = "rejected"
        /\ calls[d].pc = "awaiting" /\ calls[d].overlapped
        /\ calls[d].http.state = "pending" /\ calls[d].outcome = "pending"

====
